---- MODULE Spec2Model ----
(***************************************************************************)
(* Origin calibration of py4DSTEM (process/calibration/origin.py).         *)
(*                                                                         *)
(* Each function of origin.py that a property below is about is a small    *)
(* state machine of its own: its arguments are drawn in the initial state, *)
(* its loops advance one scan position per step, and its return is the     *)
(* state with pc = "done".  One specification per function.                *)
(*                                                                         *)
(* Numbers: coordinates and shifts are integers, derived quantities        *)
(* (means, midpoints, scores) are exact rationals <<num, den>>; a numpy    *)
(* mean over an empty selection is the distinguished value NaN.            *)
(***************************************************************************)
EXTENDS Integers, Naturals, Sequences, FiniteSets, TLC

VARIABLES
    pc,            \* position of the running function
    R_Nx, R_Ny,    \* shape of the scan grid
    k,             \* row-major index of the scan position the loop is at
    \* ---- get_origin
    datacube,      \* datacube.data: scan position -> diffraction pattern
    r,             \* radius of the center disk
    mask,          \* the mask argument: None, or scan position -> bool
    qx0, qy0,      \* the outputs: [data, masked, mask]; masked = FALSE for a plain ndarray
    \* ---- get_origin_beamstop_braggpeaks
    braggpeaks,        \* scan position -> list of peaks <<qx, qy>>
    center_guess,      \* <<qx0, qy0>>
    radii,             \* <<inner, outer>>
    max_dist,
    max_iter,
    braggpeaks_masked, \* the copy the annulus filter is applied to
    center_curr,       \* the center estimate of the running round
    ii,                \* the round
    centers,           \* scan position -> center found in the running round
    found_center,      \* scan position -> bool
    matches,           \* scan position -> pairs (i, match) accepted in the running round
    origins,           \* the returned masked array
    \* ---- find_outlier_shifts (its mask is the variable mask above)
    xshifts, yshifts,  \* scan position -> shift
    n_sigma,
    edge_boundary,
    score,             \* scan position -> score
    cutoff,            \* n_sigma * std(score), as [sigma, varnum, den]
    \* ---- get_probe_size
    DP,                \* the diffraction pattern: pixel -> intensity
    thresh_vals,       \* np.linspace(thresh_lower, thresh_upper, N)
    r_vals,            \* radius per threshold, in units of 1 / (SqrtScale * sqrt(pi))
    dr_dtheta,         \* np.gradient(r_vals), doubled
    probe,             \* the returned (r, x0, y0), or the error raised
    \* ---- fit_origin
    fit_args,          \* shapes of qx0_meas and qy0_meas, mask, fitfunction
    fitf,              \* f, the fit function chosen
    fit_calls,         \* calls of fit_2D made so far
    \* ---- get_origin_single_dp_beamstop
    DPshape,           \* DP.shape
    xpyp,              \* the arg-max of the correlation
    dxdy,              \* the wrapped offsets, doubled
    origin,            \* the returned coordinates
    \* ---- get_origin_from_braggpeaks (reads braggpeaks, writes qx0 and qy0)
    findcenter,
    x0y0,              \* the guess at the unscattered beam
    braggvectormap,
    \* ---- get_origin_brightest_disk (reads datacube and mask, writes qx0 and qy0)
    qxyInit,
    caller_mask        \* the values of the caller's mask array before the call

goVars == <<datacube, r, mask, qx0, qy0>>
bbVars == <<braggpeaks, center_guess, radii, max_dist, max_iter, braggpeaks_masked,
            center_curr, ii, centers, found_center, matches, origins>>
foVars == <<xshifts, yshifts, n_sigma, edge_boundary, score, cutoff>>
psVars == <<DP, thresh_vals, r_vals, dr_dtheta, probe>>
fitVars == <<fit_args, fitf, fit_calls>>
sbVars == <<DPshape, xpyp, dxdy, origin>>
fbVars == <<findcenter, x0y0, braggvectormap>>
bdVars == <<qxyInit, caller_mask>>
calVars == <<psVars, fitVars, sbVars, fbVars, bdVars>>
vars == <<pc, R_Nx, R_Ny, k, goVars, bbVars, foVars, calVars>>

(***************************************************************************)
(* Bounds of the model.                                                    *)
(***************************************************************************)
GO_MaxRNx == 2      \* get_origin: largest scan grid
GO_MaxRNy == 2
MaxQN == 2          \* get_origin: diffraction patterns are MaxQN x MaxQN
MaxPeaks == 3       \* peaks in a scan, over all its positions
MaxIter == 2        \* largest max_iter
MaxPairs == 2       \* conjugate pairs in a synthetic peak list
FO_MaxRNx == 3      \* find_outlier_shifts: largest scan grid
FO_MaxRNy == 3
MaxEdge == 3        \* largest edge_boundary

None == "None"

(***************************************************************************)
(* Scan grid helpers: tqdmnd(R_Nx, R_Ny) and the nested range loops visit  *)
(* the positions in row-major order, rx outer and ry inner.                *)
(***************************************************************************)
Grid(nx, ny) == (0 .. nx - 1) \X (0 .. ny - 1)

PosAt(i, ny) == <<i \div ny, i % ny>>

(***************************************************************************)
(* Exact rationals <<num, den>>, den > 0, in lowest terms.                 *)
(***************************************************************************)
Abs(x) == IF x < 0 THEN -x ELSE x

RECURSIVE GCD(_, _)
GCD(a, b) == IF b = 0 THEN a ELSE GCD(b, a % b)

Rat(n, d) ==
    LET g == GCD(Abs(n), Abs(d))
        s == IF d < 0 THEN -1 ELSE 1
    IN  <<(s * n) \div g, (s * d) \div g>>

RatInt(n) == <<n, 1>>

RatAdd(a, b) == Rat(a[1] * b[2] + b[1] * a[2], a[2] * b[2])

RatDivInt(a, n) == Rat(a[1], a[2] * n)

RatLeq(a, b) == a[1] * b[2] <= b[1] * a[2]

RatSub(a, b) == Rat(a[1] * b[2] - b[1] * a[2], a[2] * b[2])

RatMul(a, b) == Rat(a[1] * b[1], a[2] * b[2])

RECURSIVE RatSumOver(_, _)
RatSumOver(S, f) ==
    IF S = {} THEN RatInt(0)
    ELSE LET x == CHOOSE y \in S : TRUE IN RatAdd(f[x], RatSumOver(S \ {x}, f))

RECURSIVE SumOver(_, _)
SumOver(S, f) ==
    IF S = {} THEN 0
    ELSE LET x == CHOOSE y \in S : TRUE IN f[x] + SumOver(S \ {x}, f)

\* the variables of a function that is not running
GetOriginIdle ==
    /\ datacube = None /\ r = None /\ mask = None /\ qx0 = None /\ qy0 = None

BraggIdle ==
    /\ braggpeaks = None /\ center_guess = None /\ radii = None
    /\ max_dist = None /\ max_iter = None /\ braggpeaks_masked = None
    /\ center_curr = None /\ ii = None /\ centers = None
    /\ found_center = None /\ matches = None /\ origins = None

OutlierIdle ==
    /\ xshifts = None /\ yshifts = None /\ n_sigma = None
    /\ edge_boundary = None /\ score = None /\ cutoff = None

ProbeSizeIdle ==
    /\ DP = None /\ thresh_vals = None /\ r_vals = None /\ dr_dtheta = None
    /\ probe = None

FitOriginIdle == fit_args = None /\ fitf = None /\ fit_calls = None

SingleDpBeamstopIdle == DPshape = None /\ xpyp = None /\ dxdy = None /\ origin = None

FromBraggpeaksIdle == findcenter = None /\ x0y0 = None /\ braggvectormap = None

BrightestDiskIdle == qxyInit = None /\ caller_mask = None

(***************************************************************************)
(* get_origin (origin.py:91-170).                                          *)
(*                                                                         *)
(* A diffraction pattern is an intensity array over the MaxQN x MaxQN      *)
(* detector with one lit pixel; smoothing such a pattern (scipy's          *)
(* gaussian_filter) leaves its maximum on the lit pixel, so the arg-max is *)
(* taken on the pattern itself.                                            *)
(***************************************************************************)
QPix == (0 .. MaxQN - 1) \X (0 .. MaxQN - 1)

Frame(a, b) == [q \in QPix |-> IF q = <<a, b>> THEN 1 ELSE 0]

\* the datacubes tried: the lit pixel moves with the scan position
Datacube(nx, ny, a, b) ==
    [p \in Grid(nx, ny) |-> Frame((p[1] + a) % MaxQN, (p[2] + b) % MaxQN)]

RadiusValues == {1, 2}

rscaleNum == 6      \* rscale = 1.2
rscaleDen == 5

\* np.unravel_index(np.argmax(dp)): the first maximum in row-major order
ArgMax(dp) ==
    CHOOSE q \in QPix :
        /\ \A q2 \in QPix : dp[q2] <= dp[q]
        /\ \A q2 \in QPix :
              dp[q2] = dp[q] => q[1] * MaxQN + q[2] <= q2[1] * MaxQN + q2[2]

\* np.hypot(qxx - _qx0, qyy - _qy0) < r * rscale
DiskMask(q0, rr) ==
    [q \in QPix |->
        rscaleDen * rscaleDen * ((q[1] - q0[1]) * (q[1] - q0[1])
                                 + (q[2] - q0[2]) * (q[2] - q0[2]))
            < rscaleNum * rscaleNum * rr * rr]

NaN == "NaN"

\* get_CoM(ar): the intensity-weighted centroid, <<x, y>>
get_CoM(ar) ==
    LET tot == SumOver(QPix, ar)
        sx  == SumOver(QPix, [q \in QPix |-> q[1] * ar[q]])
        sy  == SumOver(QPix, [q \in QPix |-> q[2] * ar[q]])
    IN  IF tot = 0 THEN <<NaN, NaN>> ELSE <<Rat(sx, tot), Rat(sy, tot)>>

\* the single-frame finder applied in both loops (lines 137-142, 161-166)
get_origin_single_dp(dp, rr) ==
    LET q0    == ArgMax(dp)
        _mask == DiskMask(q0, rr)
    IN  get_CoM([q \in QPix |-> IF _mask[q] THEN dp[q] ELSE 0])

Zeros(nx, ny) == [p \in Grid(nx, ny) |-> RatInt(0)]

NoMask(nx, ny) == [p \in Grid(nx, ny) |-> FALSE]

\* qx0.data[rx, ry] = v: the payload is written, the validity is untouched
SetData(ma, p, v) == [ma EXCEPT !.data[p] = v]

\* variant: the assignment to .mask is lost
KeepMask(ma, v) == ma

\* qx0.mask = True: assigning a scalar to .mask sets every entry of the mask
SetMaskScalar(ma, v) == [ma EXCEPT !.mask = [p \in DOMAIN ma.mask |-> v]]

GetOriginInit ==
    /\ pc = "get_origin"
    /\ R_Nx \in 1 .. GO_MaxRNx
    /\ R_Ny \in 1 .. GO_MaxRNy
    /\ k = 0
    /\ \E a \in 0 .. MaxQN - 1, b \in 0 .. MaxQN - 1 :
          datacube = Datacube(R_Nx, R_Ny, a, b)
    /\ r \in RadiusValues
    /\ \/ mask = [given |-> FALSE, val |-> NoMask(R_Nx, R_Ny)]
       \/ \E m \in [Grid(R_Nx, R_Ny) -> BOOLEAN] : mask = [given |-> TRUE, val |-> m]
    /\ qx0 = None
    /\ qy0 = None
    /\ BraggIdle
    /\ OutlierIdle
    /\ ProbeSizeIdle /\ FitOriginIdle /\ SingleDpBeamstopIdle
    /\ FromBraggpeaksIdle /\ BrightestDiskIdle

\* lines 125-129 and 144-152: allocate the outputs, plain or masked (r is given, so
\* lines 118-123 are skipped; the mask has the scan shape and dtype bool)
GetOriginSetup ==
    /\ pc = "get_origin"
    /\ qx0' = [data |-> Zeros(R_Nx, R_Ny), masked |-> mask.given,
               mask |-> NoMask(R_Nx, R_Ny)]
    /\ qy0' = [data |-> Zeros(R_Nx, R_Ny), masked |-> mask.given,
               mask |-> NoMask(R_Nx, R_Ny)]
    /\ pc' = IF mask.given THEN "loop_mask" ELSE "loop_nomask"
    /\ UNCHANGED <<R_Nx, R_Ny, k, datacube, r, mask, bbVars, foVars, calVars>>

\* lines 130-142: one iteration of the loop without a mask
GetOriginStep ==
    /\ pc = "loop_nomask"
    /\ k < R_Nx * R_Ny
    /\ LET p == PosAt(k, R_Ny)
           o == get_origin_single_dp(datacube[p], r)
       IN  /\ qx0' = SetData(qx0, p, o[1])
           /\ qy0' = SetData(qy0, p, o[2])
    /\ k' = k + 1
    /\ UNCHANGED <<pc, R_Nx, R_Ny, datacube, r, mask, bbVars, foVars, calVars>>

\* lines 153-168: one iteration of the loop with a mask
GetOriginMaskedStep ==
    /\ pc = "loop_mask"
    /\ k < R_Nx * R_Ny
    /\ LET p == PosAt(k, R_Ny)
           o == get_origin_single_dp(datacube[p], r)
       IN  IF mask.val[p]
           THEN /\ qx0' = SetData(qx0, p, o[1])
                /\ qy0' = SetData(qy0, p, o[2])
           ELSE /\ qx0' = SetMaskScalar(qx0, TRUE)
                /\ qy0' = SetMaskScalar(qy0, TRUE)
    /\ k' = k + 1
    /\ UNCHANGED <<pc, R_Nx, R_Ny, datacube, r, mask, bbVars, foVars, calVars>>

\* line 170
GetOriginReturn ==
    /\ pc \in {"loop_mask", "loop_nomask"}
    /\ k = R_Nx * R_Ny
    /\ pc' = "done"
    /\ UNCHANGED <<R_Nx, R_Ny, k, goVars, bbVars, foVars, calVars>>

GetOriginNext ==
    \/ GetOriginSetup
    \/ GetOriginStep
    \/ GetOriginMaskedStep
    \/ GetOriginReturn

SpecGetOrigin == GetOriginInit /\ [][GetOriginNext]_vars

GetOriginReturned == pc = "done" /\ mask.given

\* C1: when get_origin is given a mask, every scan position whose mask entry is
\* False is invalid (masked) in both returned fields qx0 and qy0.
ExcludedPositionsInvalid ==
    GetOriginReturned =>
        \A p \in Grid(R_Nx, R_Ny) : ~mask.val[p] => qx0.mask[p] /\ qy0.mask[p]

\* a masked call has returned, with excluded and included positions in the grid
ExcludedPositionReturned ==
    /\ GetOriginReturned
    /\ \E p \in Grid(R_Nx, R_Ny) : ~mask.val[p]
    /\ \E p \in Grid(R_Nx, R_Ny) : mask.val[p]

\* C2: after the loop has visited every scan position, position p is valid in qx0
\* and qy0 if and only if mask[p] is True, and each valid entry holds the
\* single-frame finder's result for the frame at p.
ValidExactlyWhereMaskTrue ==
    GetOriginReturned =>
        \A p \in Grid(R_Nx, R_Ny) :
            /\ ~qx0.mask[p] <=> mask.val[p]
            /\ ~qy0.mask[p] <=> mask.val[p]
            /\ mask.val[p] =>
                  /\ qx0.data[p] = get_origin_single_dp(datacube[p], r)[1]
                  /\ qy0.data[p] = get_origin_single_dp(datacube[p], r)[2]

(***************************************************************************)
(* get_origin_beamstop_braggpeaks (origin.py:407-485).                     *)
(*                                                                         *)
(* Peak i of a list is pl[i], i = 1 .. Len(pl) (the code counts from 0).   *)
(* Distances are compared by their squares, which orders them as np.hypot  *)
(* does since max_dist and the radii are not negative.                     *)
(***************************************************************************)
QPoints == {<<0, 0>>, <<1, 0>>, <<2, 0>>, <<1, 1>>}

CenterGuesses == {<<1, 0>>, <<0, 0>>}

RadiiChoices == {<<0, 2>>, <<1, 1>>}

ScanWidths == {1, 2}

MaxDists == {0, 1}

SeqsUpTo(S, n) == UNION {[1 .. m -> S] : m \in 0 .. n}

\* the peak lists of a 1 x ny scan: flat[i] belongs to position <<0, at[i]>>
PointListArray(ny, flat, at) ==
    [p \in Grid(1, ny) |->
        LET idx == {i \in 1 .. Len(flat) : at[i] = p[2]}
            lo  == CHOOSE i \in idx : \A j \in idx : i <= j
        IN  [j \in 1 .. Cardinality(idx) |-> flat[lo + j - 1]]]

Monotone(at) == \A i, j \in DOMAIN at : i <= j => at[i] <= at[j]

Sq(x) == x * x

Count(pl, q) == Cardinality({i \in DOMAIN pl : pl[i] = q})

\* np.hypot(qx - c[0], qy - c[1]) ** 2
Dist2(q, c) == Sq(q[1] - c[1]) + Sq(q[2] - c[2])

\* variant: the outer radius is excluded
InAnnulusOpen(q, c, rad) == Sq(rad[1]) <= Dist2(q, c) /\ Dist2(q, c) < Sq(rad[2])

\* lines 433-436: pl.remove_points(rm) keeps, in order, the peaks of the annulus
InAnnulus(q, c, rad) == Sq(rad[1]) <= Dist2(q, c) /\ Dist2(q, c) <= Sq(rad[2])

RemoveOutsideAnnulus(pl, c, rad) == SelectSeq(pl, LAMBDA q : InAnnulus(q, c, rad))

Center(x, y) == [nan |-> FALSE, x |-> x, y |-> y]

NaNCenter == [nan |-> TRUE, x |-> RatInt(0), y |-> RatInt(0)]

\* lines 454-458: the squared distances of every peak to the reflection of peak i
Dists(pl, c, i, is_paired, md) ==
    LET x_r == RatSub(RatMul(RatInt(2), c.x), RatInt(pl[i][1]))
        y_r == RatSub(RatMul(RatInt(2), c.y), RatInt(pl[i][2]))
    IN  [j \in 1 .. Len(pl) |->
            IF is_paired[j] THEN RatInt(Sq(2 * md))
            ELSE RatAdd(RatMul(RatSub(x_r, RatInt(pl[j][1])), RatSub(x_r, RatInt(pl[j][1]))),
                        RatMul(RatSub(y_r, RatInt(pl[j][2])), RatSub(y_r, RatInt(pl[j][2]))))]

\* np.argmin(dists): the first index of the minimum
ArgMin(dists) ==
    CHOOSE j \in DOMAIN dists :
        /\ \A j2 \in DOMAIN dists : RatLeq(dists[j], dists[j2])
        /\ \A j2 \in DOMAIN dists : dists[j2] = dists[j] => j <= j2

\* lines 452-463: the greedy pairing of one peak list, from peak i on.  With a NaN
\* center every distance of an unpaired peak is NaN, no comparison succeeds and no
\* peak is ever paired.
RECURSIVE FindPairs(_, _, _, _, _, _)
FindPairs(pl, c, md, i, is_paired, acc) ==
    IF i > Len(pl) \/ c.nan THEN acc
    ELSE IF is_paired[i] THEN FindPairs(pl, c, md, i + 1, is_paired, acc)
    ELSE LET dists   == Dists(pl, c, i, is_paired, md)
             matched == {j \in 1 .. Len(pl) : RatLeq(dists[j], RatInt(Sq(md)))}
         IN  IF matched # {}
             THEN LET match == ArgMin(dists)
                  IN  FindPairs(pl, c, md, i + 1,
                                [is_paired EXCEPT ![i] = TRUE, ![match] = TRUE],
                                Append(acc, <<i, match>>))
             ELSE FindPairs(pl, c, md, i + 1, is_paired, acc)

FindMatches(pl, c, md) ==
    FindPairs(pl, c, md, 1, [j \in 1 .. Len(pl) |-> FALSE], <<>>)

\* lines 467-471: the mean over the pairs of the mean of the two peaks
PairsCenter(pl, ms) ==
    LET n  == Len(ms)
        sx == SumOver(1 .. n, [m \in 1 .. n |-> pl[ms[m][1]][1] + pl[ms[m][2]][1]])
        sy == SumOver(1 .. n, [m \in 1 .. n |-> pl[ms[m][1]][2] + pl[ms[m][2]][2]])
    IN  Center(Rat(sx, 2 * n), Rat(sy, 2 * n))

\* variant: the mean is taken over every position, found or not
MeanOverAllPositions(cs, found) ==
    LET S == DOMAIN cs
        n == Cardinality(S)
    IN  IF {p \in S : found[p]} = {} THEN NaNCenter
        ELSE Center(RatDivInt(RatSumOver(S, [p \in S |-> cs[p].x]), n),
                    RatDivInt(RatSumOver(S, [p \in S |-> cs[p].y]), n))

\* lines 478-480: np.mean over the positions with a center; NaN when there is none
MeanCenter(cs, found) ==
    LET S == {p \in DOMAIN cs : found[p]}
        n == Cardinality(S)
    IN  IF n = 0 THEN NaNCenter
        ELSE Center(RatDivInt(RatSumOver(S, [p \in S |-> cs[p].x]), n),
                    RatDivInt(RatSumOver(S, [p \in S |-> cs[p].y]), n))

ZeroCenter == Center(RatInt(0), RatInt(0))

BraggStart(bp, cg, rad, md, mi) ==
    /\ pc = "braggpeaks"
    /\ k = 0
    /\ braggpeaks = bp
    /\ center_guess = cg
    /\ radii = rad
    /\ max_dist = md
    /\ max_iter = mi
    /\ braggpeaks_masked = None /\ center_curr = None /\ ii = None
    /\ centers = None /\ found_center = None /\ matches = None /\ origins = None
    /\ GetOriginIdle
    /\ OutlierIdle
    /\ ProbeSizeIdle /\ FitOriginIdle /\ SingleDpBeamstopIdle
    /\ FromBraggpeaksIdle /\ BrightestDiskIdle

BraggInit ==
    /\ R_Nx = 1
    /\ R_Ny \in ScanWidths
    /\ \E flat \in SeqsUpTo(QPoints, MaxPeaks) :
         \E at \in [1 .. Len(flat) -> 0 .. R_Ny - 1] :
            /\ Monotone(at)
            /\ \E cg \in CenterGuesses, rad \in RadiiChoices,
                  md \in MaxDists, mi \in 1 .. MaxIter :
                  BraggStart(PointListArray(R_Ny, flat, at), cg, rad, md, mi)

\* lines 428-439: filter every peak list to the annulus, start from center_guess
BraggFilter ==
    /\ pc = "braggpeaks"
    /\ braggpeaks_masked' =
          [p \in Grid(R_Nx, R_Ny) |->
              RemoveOutsideAnnulus(braggpeaks[p], center_guess, radii)]
    /\ center_curr' = Center(RatInt(center_guess[1]), RatInt(center_guess[2]))
    /\ ii' = 0
    /\ pc' = "round"
    /\ UNCHANGED <<R_Nx, R_Ny, k, goVars, foVars, calVars, braggpeaks, center_guess, radii, max_dist,
                   max_iter, centers, found_center, matches, origins>>

\* lines 440-442: a round starts with fresh centers and found_center
BraggRound ==
    /\ pc = "round"
    /\ ii < max_iter
    /\ centers' = [p \in Grid(R_Nx, R_Ny) |-> ZeroCenter]
    /\ found_center' = [p \in Grid(R_Nx, R_Ny) |-> FALSE]
    /\ matches' = [p \in Grid(R_Nx, R_Ny) |-> <<>>]
    /\ k' = 0
    /\ pc' = "position"
    /\ UNCHANGED <<R_Nx, R_Ny, goVars, foVars, calVars, braggpeaks, center_guess, radii, max_dist,
                   max_iter, braggpeaks_masked, center_curr, ii, origins>>

\* lines 443-475: one scan position of the round
BraggPosition ==
    /\ pc = "position"
    /\ k < R_Nx * R_Ny
    /\ LET p  == PosAt(k, R_Ny)
           pl == braggpeaks_masked[p]
           ms == FindMatches(pl, center_curr, max_dist)
       IN  /\ matches' = [matches EXCEPT ![p] = ms]
           /\ IF Len(ms) > 0
              THEN /\ centers' = [centers EXCEPT ![p] = PairsCenter(pl, ms)]
                   /\ found_center' = [found_center EXCEPT ![p] = TRUE]
              ELSE /\ centers' = centers
                   /\ found_center' = [found_center EXCEPT ![p] = FALSE]
    /\ k' = k + 1
    /\ UNCHANGED <<pc, R_Nx, R_Ny, goVars, foVars, calVars, braggpeaks, center_guess, radii, max_dist,
                   max_iter, braggpeaks_masked, center_curr, ii, origins>>

\* lines 477-480: after the last position, the new center estimate
BraggUpdate ==
    /\ pc = "position"
    /\ k = R_Nx * R_Ny
    /\ center_curr' = MeanCenter(centers, found_center)
    /\ ii' = ii + 1
    /\ pc' = "round"
    /\ UNCHANGED <<R_Nx, R_Ny, k, goVars, foVars, calVars, braggpeaks, center_guess, radii, max_dist,
                   max_iter, braggpeaks_masked, centers, found_center, matches, origins>>

\* variant: found_center is used as the mask without the logical_not
BraggReturnFoundAsMask ==
    /\ pc = "round"
    /\ ii >= max_iter
    /\ origins' = [data |-> centers, mask |-> found_center]
    /\ pc' = "done"
    /\ UNCHANGED <<R_Nx, R_Ny, k, goVars, foVars, calVars, braggpeaks, center_guess, radii, max_dist,
                   max_iter, braggpeaks_masked, center_curr, ii, centers, found_center,
                   matches>>

\* lines 483-485: the centers, masked where no center was found
BraggReturn ==
    /\ pc = "round"
    /\ ii >= max_iter
    /\ origins' = [data |-> centers,
                   mask |-> [p \in Grid(R_Nx, R_Ny) |-> ~found_center[p]]]
    /\ pc' = "done"
    /\ UNCHANGED <<R_Nx, R_Ny, k, goVars, foVars, calVars, braggpeaks, center_guess, radii, max_dist,
                   max_iter, braggpeaks_masked, center_curr, ii, centers, found_center,
                   matches>>

BraggNext ==
    \/ BraggFilter
    \/ BraggRound
    \/ BraggPosition
    \/ BraggUpdate
    \/ BraggReturn

SpecBeamstopBraggpeaks == BraggInit /\ [][BraggNext]_vars

\* a round has started: matches holds the pairs of the running or the last round
Pairing == pc = "position" \/ (pc \in {"round", "done"} /\ ii > 0)

PeaksOf(pair) == {pair[1], pair[2]}

\* C3: within one scan position and one round, no peak index occurs in more than
\* one accepted pair.
PeakMatchesAtMostOnce ==
    Pairing =>
        \A p \in Grid(R_Nx, R_Ny) :
            \A m1, m2 \in DOMAIN matches[p] :
                m1 # m2 => PeaksOf(matches[p][m1]) \cap PeaksOf(matches[p][m2]) = {}

Filtered == pc \in {"position", "round", "done"}

\* radii[0] <= d <= radii[1] for the distance d of q to the caller's center_guess
WithinRadii(q) ==
    LET d2 == (q[1] - center_guess[1]) * (q[1] - center_guess[1])
              + (q[2] - center_guess[2]) * (q[2] - center_guess[2])
    IN  radii[1] * radii[1] <= d2 /\ d2 <= radii[2] * radii[2]

\* C4: step 1 removes, at every scan position, exactly the peaks whose distance
\* from the caller's center_guess lies outside [radii[0], radii[1]], and every
\* peak that is paired in any round lies inside that annulus.
OnlyAnnulusPeaksPaired ==
    Filtered =>
        \A p \in Grid(R_Nx, R_Ny) :
            /\ \A i \in DOMAIN braggpeaks_masked[p] : WithinRadii(braggpeaks_masked[p][i])
            /\ \A q \in QPoints :
                  Count(braggpeaks_masked[p], q)
                      = IF WithinRadii(q) THEN Count(braggpeaks[p], q) ELSE 0
            /\ Pairing =>
                  \A m \in DOMAIN matches[p] :
                      \A i \in PeaksOf(matches[p][m]) :
                          /\ i \in DOMAIN braggpeaks_masked[p]
                          /\ WithinRadii(braggpeaks_masked[p][i])

\* a peak was removed at a position where the remaining peaks were paired
RemovedPeakAndPairFound ==
    /\ pc = "done"
    /\ \E p \in Grid(R_Nx, R_Ny) :
          /\ Len(braggpeaks_masked[p]) < Len(braggpeaks[p])
          /\ Len(matches[p]) > 0

FoundPositions == {p \in Grid(R_Nx, R_Ny) : found_center[p]}

\* C6: the center estimate is the same for every scan position of a round, round 1
\* uses the caller's center_guess, and the estimate of round k+1 is the mean of the
\* per-position centers found in round k, set only after the last position of
\* round k.
EstimateStep ==
    /\ (pc = "round" /\ ii = 0) =>
          center_curr = Center(RatInt(center_guess[1]), RatInt(center_guess[2]))
    /\ (pc \in {"round", "position"} /\ ii' = ii) => center_curr' = center_curr
    /\ (pc \in {"round", "position"} /\ ii' # ii) =>
          /\ ii' = ii + 1
          /\ k = R_Nx * R_Ny
          /\ \A p \in Grid(R_Nx, R_Ny) : found_center[p] <=> Len(matches[p]) > 0
          /\ FoundPositions # {} =>
                /\ ~center_curr'.nan
                /\ RatMul(RatInt(Cardinality(FoundPositions)), center_curr'.x)
                      = RatSumOver(FoundPositions, [p \in FoundPositions |-> centers[p].x])
                /\ RatMul(RatInt(Cardinality(FoundPositions)), center_curr'.y)
                      = RatSumOver(FoundPositions, [p \in FoundPositions |-> centers[p].y])

EstimateFixedWithinRound == [][EstimateStep]_vars

\* the second round is under way with an estimate that differs from center_guess,
\* after a first round that found a center at one of two positions only
SecondRoundUsesUpdatedEstimate ==
    /\ pc = "position"
    /\ ii = 1
    /\ k = 1
    /\ R_Ny = 2
    /\ ~center_curr.nan
    /\ center_curr # Center(RatInt(center_guess[1]), RatInt(center_guess[2]))

\* C7: the call returns a masked field in which position p is valid if and only if
\* at least one pair was accepted at p in the last round, and a valid entry is the
\* mean of the midpoints of the pairs accepted at p in that round.
InvalidWhereNoPair ==
    pc = "done" =>
        \A p \in Grid(R_Nx, R_Ny) :
            LET ms == matches[p]
                pl == braggpeaks_masked[p]
                n  == Len(ms)
                c  == origins.data[p]
            IN  /\ ~origins.mask[p] <=> n > 0
                /\ n > 0 =>
                      /\ ~c.nan
                      /\ 2 * n * c.x[1]
                            = c.x[2] * SumOver(1 .. n,
                                  [m \in 1 .. n |-> pl[ms[m][1]][1] + pl[ms[m][2]][1]])
                      /\ 2 * n * c.y[1]
                            = c.y[2] * SumOver(1 .. n,
                                  [m \in 1 .. n |-> pl[ms[m][1]][2] + pl[ms[m][2]][2]])

\* the call returned with a position that has a center and one that has none
ReturnedValidAndInvalid ==
    /\ pc = "done"
    /\ \E p \in Grid(R_Nx, R_Ny) : ~origins.mask[p]
    /\ \E p \in Grid(R_Nx, R_Ny) : origins.mask[p]

\* C16: every accepted conjugate pair consists of two distinct peaks of the
\* position's list: a peak is never matched with itself, also when its own
\* reflection about the current center lies within max_dist of it.
PairsAreDistinctPeaks ==
    Pairing =>
        \A p \in Grid(R_Nx, R_Ny) :
            \A m \in DOMAIN matches[p] : matches[p][m][1] # matches[p][m][2]

\* C17: the global center estimate is a defined coordinate at the start of
\* every round, also after a round that found no center at any position.
EstimateDefinedEveryRound ==
    (max_iter > 1 /\ (pc = "position" \/ (pc = "round" /\ ii < max_iter)))
        => ~center_curr.nan

(***************************************************************************)
(* Synthetic peak lists: every position's peaks are conjugate pairs about  *)
(* ConjCenter, all of them inside the annulus ConjRadii, and the caller's  *)
(* center_guess is ConjCenter itself; one round.                           *)
(***************************************************************************)
ConjCenter == <<1, 1>>

ConjRadii == <<1, 2>>

ConjPoints == ((0 .. 2) \X (0 .. 2)) \ {ConjCenter}

Reflect(q, c) == <<2 * c[1] - q[1], 2 * c[2] - q[2]>>

\* as many copies of every peak as of its reflection about c, none on c itself
IsConjugateList(pl, c) ==
    \A i \in DOMAIN pl :
        pl[i] # c /\ Count(pl, pl[i]) = Count(pl, Reflect(pl[i], c))

ConjugateInit ==
    /\ R_Nx = 1
    /\ R_Ny \in ScanWidths
    /\ \E flat \in SeqsUpTo(ConjPoints, 2 * MaxPairs) :
         \E at \in [1 .. Len(flat) -> 0 .. R_Ny - 1] :
            /\ Monotone(at)
            /\ \A p \in Grid(1, R_Ny) :
                  IsConjugateList(PointListArray(R_Ny, flat, at)[p], ConjCenter)
            /\ \E md \in MaxDists :
                  BraggStart(PointListArray(R_Ny, flat, at), ConjCenter, ConjRadii, md, 1)

SpecConjugatePairs == ConjugateInit /\ [][BraggNext]_vars

\* C5: for peak lists made of exact point-reflection pairs about a known center
\* inside the annulus, one round returns exactly that center at every position
\* that has peaks.
ConjugatePairsRecoverCenter ==
    pc = "done" =>
        \A p \in Grid(R_Nx, R_Ny) :
            Len(braggpeaks[p]) > 0 =>
                /\ ~origins.mask[p]
                /\ origins.data[p] = Center(RatInt(ConjCenter[1]), RatInt(ConjCenter[2]))

(***************************************************************************)
(* find_outlier_shifts (origin.py:604-694).                                *)
(*                                                                         *)
(* The slices are the sets of indices numpy selects on an axis of length   *)
(* n.  std(score) is not rational: cutoff is kept as n_sigma together with *)
(* the variance of score, and score > cutoff is decided on the squares.    *)
(***************************************************************************)
Min(a, b) == IF a < b THEN a ELSE b

Max(a, b) == IF a > b THEN a ELSE b

Slice(sl, n) ==
    CASE sl = ":"    -> 0 .. n - 1
      [] sl = ":-1"  -> 0 .. n - 2
      [] sl = "1:"   -> 1 .. n - 1
      [] sl = "1:-1" -> 1 .. n - 2
      [] sl = ":1"   -> 0 .. Min(1, n) - 1
      [] sl = "-1:"  -> n - 1 .. n - 1
      [] sl = "0"    -> {0}
      [] sl = "-1"   -> {n - 1}

\* a[:e] and a[-e:] for e > 0
SliceTo(e, n) == 0 .. Min(e, n) - 1

SliceFromEnd(e, n) == Max(n - e, 0) .. n - 1

\* np.roll(a, (s0, s1), axis=(0, 1))
Roll(a, s0, s1, nx, ny) ==
    [p \in Grid(nx, ny) |-> a[<<(p[1] - s0) % nx, (p[2] - s1) % ny>>]]

\* lines 627-650 (and 651-674 for yshifts): <<rows, columns, roll>> of each statement
ScoreTerms ==
    << <<":-1", ":",   <<-1, 0>> >>,
       <<"1:",  ":",   <<1, 0>> >>,
       <<":",   ":-1", <<0, -1>> >>,
       <<":",   "1:",  <<0, 1>> >>,
       <<":-1", ":-1", <<-1, -1>> >>,
       <<"1:",  ":-1", <<1, -1>> >>,
       <<":-1", "1:",  <<-1, 1>> >>,
       <<"1:",  "1:",  <<1, 1>> >> >>

\* score[rows, cols] += np.abs(a[rows, cols] - np.roll(a, roll)[rows, cols])
AddTerm(sc, a, t, nx, ny) ==
    LET rolled == Roll(a, t[3][1], t[3][2], nx, ny)
    IN  [p \in Grid(nx, ny) |->
            IF p[1] \in Slice(t[1], nx) /\ p[2] \in Slice(t[2], ny)
            THEN sc[p] + Abs(a[p] - rolled[p])
            ELSE sc[p]]

RECURSIVE AddTerms(_, _, _, _, _)
AddTerms(sc, a, i, nx, ny) ==
    IF i > Len(ScoreTerms) THEN sc
    ELSE AddTerms(AddTerm(sc, a, ScoreTerms[i], nx, ny), a, i + 1, nx, ny)

\* lines 675-683: <<rows, columns, divisor>> of each statement
NormSteps ==
    << <<"1:-1", "1:-1", 8>>,
       <<":1",   "1:-1", 5>>,
       <<"-1:",  "1:-1", 5>>,
       <<"1:-1", ":1",   5>>,
       <<"1:-1", "-1:",  5>>,
       <<"0",    "0",    3>>,
       <<"0",    "-1",   3>>,
       <<"-1",   "0",    3>>,
       <<"-1",   "-1",   3>> >>

\* score[rows, cols] /= divisor
Divide(sc, t, nx, ny) ==
    [p \in Grid(nx, ny) |->
        IF p[1] \in Slice(t[1], nx) /\ p[2] \in Slice(t[2], ny)
        THEN RatDivInt(sc[p], t[3])
        ELSE sc[p]]

RECURSIVE Normalise(_, _, _, _)
Normalise(sc, i, nx, ny) ==
    IF i > Len(NormSteps) THEN sc
    ELSE Normalise(Divide(sc, NormSteps[i], nx, ny), i + 1, nx, ny)

RECURSIVE LCM(_)
LCM(S) ==
    IF S = {} THEN 1
    ELSE LET x == CHOOSE y \in S : TRUE
             l == LCM(S \ {x})
         IN  (x * l) \div GCD(x, l)

\* the scores over their common denominator
ScoreDen(sc) == LCM({sc[p][2] : p \in DOMAIN sc})

Scaled(s, den) == s[1] * (den \div s[2])

\* line 686: cutoff = np.std(score) * n_sigma, with
\* std(score) = sqrt(varnum) / den
Cutoff(sc, sigma) ==
    LET D  == ScoreDen(sc)
        n  == Cardinality(DOMAIN sc)
        S  == [p \in DOMAIN sc |-> Scaled(sc[p], D)]
        s1 == SumOver(DOMAIN sc, S)
        s2 == SumOver(DOMAIN sc, [p \in DOMAIN sc |-> S[p] * S[p]])
    IN  [sigma |-> sigma, varnum |-> n * s2 - s1 * s1, den |-> n * D]

\* variant: positions at the cutoff are flagged too
AtOrAboveCutoff(s, c) ==
    LET v == Scaled(s, c.den)
    IN  IF c.sigma >= 0 THEN v * v >= c.sigma * c.sigma * c.varnum
        ELSE TRUE

\* line 687: score > cutoff, for a score s >= 0
AboveCutoff(s, c) ==
    LET v == Scaled(s, c.den)
    IN  IF c.sigma >= 0 THEN v * v > c.sigma * c.sigma * c.varnum
        ELSE c.varnum > 0 \/ v > 0

\* variant: only the leading rows and columns are flagged
LeadingEdgeOnly(p, e, nx, ny) ==
    e > 0 /\ (p[1] \in SliceTo(e, nx) \/ p[2] \in SliceTo(e, ny))

\* lines 688-692
InEdgeSlices(p, e, nx, ny) ==
    /\ e > 0
    /\ \/ p[1] \in SliceTo(e, nx)
       \/ p[1] \in SliceFromEnd(e, nx)
       \/ p[2] \in SliceTo(e, ny)
       \/ p[2] \in SliceFromEnd(e, ny)

ShiftValues == {0, 1}

NSigmas == {-1, 0, 1, 2}

\* the shift fields tried: base everywhere, other at the positions of spikes
ShiftField(nx, ny, base, other, spikes) ==
    [p \in Grid(nx, ny) |-> IF p \in spikes THEN other ELSE base]

AtMostOne(S) == {{}} \cup {{x} : x \in S}

OutlierInit ==
    /\ pc = "find_outlier_shifts"
    /\ R_Nx \in 1 .. FO_MaxRNx
    /\ R_Ny \in 1 .. FO_MaxRNy
    /\ k = 0
    /\ \E b \in ShiftValues, sp \in AtMostOne(Grid(R_Nx, R_Ny)) :
          xshifts = ShiftField(R_Nx, R_Ny, b, 1 - b, sp)
    /\ \E sp \in AtMostOne(Grid(R_Nx, R_Ny)) :
          yshifts = ShiftField(R_Nx, R_Ny, 0, 1, sp)
    /\ n_sigma \in NSigmas
    /\ edge_boundary \in 0 .. MaxEdge
    /\ score = None
    /\ cutoff = None
    /\ GetOriginIdle
    /\ BraggIdle
    /\ ProbeSizeIdle /\ FitOriginIdle /\ SingleDpBeamstopIdle
    /\ FromBraggpeaksIdle /\ BrightestDiskIdle

\* lines 626-674: the sum of the absolute differences to the neighbours
OutlierScore ==
    /\ pc = "find_outlier_shifts"
    /\ score' =
          LET zeros == [p \in Grid(R_Nx, R_Ny) |-> 0]
              sums  == AddTerms(AddTerms(zeros, xshifts, 1, R_Nx, R_Ny),
                                yshifts, 1, R_Nx, R_Ny)
          IN  [p \in Grid(R_Nx, R_Ny) |-> RatInt(sums[p])]
    /\ pc' = "normalise"
    /\ UNCHANGED <<R_Nx, R_Ny, k, goVars, bbVars, calVars, xshifts, yshifts, n_sigma,
                   edge_boundary, cutoff>>

\* lines 675-683: the division by the number of neighbours
OutlierNormalise ==
    /\ pc = "normalise"
    /\ score' = Normalise(score, 1, R_Nx, R_Ny)
    /\ pc' = "cutoff"
    /\ UNCHANGED <<R_Nx, R_Ny, k, goVars, bbVars, calVars, xshifts, yshifts, n_sigma,
                   edge_boundary, cutoff>>

\* lines 685-694: the cutoff, the mask and the return
OutlierMask ==
    /\ pc = "cutoff"
    /\ cutoff' = Cutoff(score, n_sigma)
    /\ mask' = [p \in Grid(R_Nx, R_Ny) |->
                  \/ AboveCutoff(score[p], Cutoff(score, n_sigma))
                  \/ InEdgeSlices(p, edge_boundary, R_Nx, R_Ny)]
    /\ pc' = "done"
    /\ UNCHANGED <<R_Nx, R_Ny, k, datacube, r, qx0, qy0, bbVars, calVars, xshifts, yshifts,
                   n_sigma, edge_boundary, score>>

OutlierNext ==
    \/ OutlierScore
    \/ OutlierNormalise
    \/ OutlierMask

SpecOutlierShifts == OutlierInit /\ [][OutlierNext]_vars

\* the in-grid neighbours of p, up to 8
Neighbours(p) ==
    {q \in Grid(R_Nx, R_Ny) :
        q # p /\ Abs(q[1] - p[1]) <= 1 /\ Abs(q[2] - p[2]) <= 1}

Disagreement(p) ==
    SumOver(Neighbours(p),
            [q \in Neighbours(p) |->
                Abs(xshifts[p] - xshifts[q]) + Abs(yshifts[p] - yshifts[q])])

\* C8: the score of every scan position is the sum over its in-grid neighbours of
\* the absolute x-shift and y-shift differences, divided by the number of in-grid
\* neighbours of that position, for every grid shape.
ScoreIsMeanDisagreement ==
    pc \in {"cutoff", "done"} =>
        \A p \in Grid(R_Nx, R_Ny) :
            score[p][1] * Cardinality(Neighbours(p)) = Disagreement(p) * score[p][2]

IsConstant(a) == \A p, q \in DOMAIN a : a[p] = a[q]

\* C9: for constant x-shift and y-shift fields and edge_boundary = 0, the score is
\* zero at every position and no position is flagged, whatever n_sigma is.
ConstantFieldNothingFlagged ==
    (pc = "done" /\ IsConstant(xshifts) /\ IsConstant(yshifts) /\ edge_boundary = 0) =>
        \A p \in Grid(R_Nx, R_Ny) : score[p][1] = 0 /\ ~mask[p]

\* a 3 x 3 scan of constant non-zero shifts was scored with n_sigma = 0
ConstantFieldScored ==
    /\ pc = "done"
    /\ R_Nx = 3 /\ R_Ny = 3
    /\ \A p \in Grid(R_Nx, R_Ny) : xshifts[p] = 1 /\ yshifts[p] = 0
    /\ edge_boundary = 0
    /\ n_sigma = 0

\* score[p] > cutoff, with cutoff = sigma * sqrt(varnum) / den and score[p] >= 0
ExceedsCutoff(p) ==
    IF cutoff.sigma >= 0
    THEN score[p][1] * score[p][1] * cutoff.den * cutoff.den
            > cutoff.sigma * cutoff.sigma * cutoff.varnum * score[p][2] * score[p][2]
    ELSE cutoff.varnum > 0 \/ score[p][1] > 0

\* p lies within edge_boundary pixels of an edge of the scan grid
NearEdge(p) ==
    \/ p[1] < edge_boundary \/ p[1] >= R_Nx - edge_boundary
    \/ p[2] < edge_boundary \/ p[2] >= R_Ny - edge_boundary

\* C10: the returned mask flags p if and only if score[p] > cutoff or p lies within
\* edge_boundary pixels of an edge; with edge_boundary = 0 no position is flagged
\* for being on the edge, and with edge_boundary at least a grid dimension every
\* position is flagged.
FlaggedIffOutlierOrNearEdge ==
    pc = "done" =>
        /\ \A p \in Grid(R_Nx, R_Ny) : mask[p] <=> (ExceedsCutoff(p) \/ NearEdge(p))
        /\ edge_boundary = 0 =>
              \A p \in Grid(R_Nx, R_Ny) : mask[p] <=> ExceedsCutoff(p)
        /\ (edge_boundary >= R_Nx \/ edge_boundary >= R_Ny) =>
              \A p \in Grid(R_Nx, R_Ny) : mask[p]

\* with edge_boundary = 1 on a 3 x 3 scan, the center is flagged for its score and
\* an edge position is flagged although its score is below the cutoff
FlaggedByScoreAndByEdge ==
    /\ pc = "done"
    /\ R_Nx = 3 /\ R_Ny = 3
    /\ edge_boundary = 1
    /\ mask[<<1, 1>>]
    /\ \E p \in Grid(R_Nx, R_Ny) : mask[p] /\ ~ExceedsCutoff(p)


(***************************************************************************)
(* get_origin_single_dp_beamstop (origin.py:351-378).  The correlation of  *)
(* the masked pattern with its own inversion is not modelled: its arg-max  *)
(* is any index of the frame.                                              *)
(***************************************************************************)
MaxDPSize == 7

RatFloor(a) == a[1] \div a[2]

\* Python's a % n for a positive n
RatMod(a, n) == RatSub(a, RatInt(n * RatFloor(RatDivInt(a, n))))

\* variant: the arg-max index is taken as the offset, without wrapping
Unwrapped(p, n) == RatInt(p)

\* lines 375-376: ((xp + DP.shape[0] / 2) % DP.shape[0]) - DP.shape[0] / 2
Wrapped(p, n) == RatSub(RatMod(RatAdd(RatInt(p), Rat(n, 2)), n), Rat(n, 2))

\* line 378: (DP.shape[0] + dx) / 2
Absolute(d, n) == RatDivInt(RatAdd(RatInt(n), d), 2)

SingleDpBeamstopInit ==
    /\ pc = "get_origin_single_dp_beamstop"
    /\ DPshape \in (1 .. MaxDPSize) \X (1 .. MaxDPSize)
    /\ xpyp = None /\ dxdy = None /\ origin = None
    /\ R_Nx = None /\ R_Ny = None /\ k = None
    /\ GetOriginIdle /\ BraggIdle /\ OutlierIdle
    /\ ProbeSizeIdle /\ FitOriginIdle /\ FromBraggpeaksIdle /\ BrightestDiskIdle

\* lines 365-373: the arg-max of the cross correlation
SingleDpCorrelate ==
    /\ pc = "get_origin_single_dp_beamstop"
    /\ \E xp \in 0 .. DPshape[1] - 1, yp \in 0 .. DPshape[2] - 1 :
           xpyp' = <<xp, yp>>
    /\ pc' = "wrap"
    /\ UNCHANGED <<R_Nx, R_Ny, k, goVars, bbVars, foVars, psVars, fitVars, fbVars,
                   bdVars, DPshape, dxdy, origin>>

\* lines 375-376
SingleDpWrap ==
    /\ pc = "wrap"
    /\ dxdy' = <<Wrapped(xpyp[1], DPshape[1]), Wrapped(xpyp[2], DPshape[2])>>
    /\ pc' = "return"
    /\ UNCHANGED <<R_Nx, R_Ny, k, goVars, bbVars, foVars, psVars, fitVars, fbVars,
                   bdVars, DPshape, xpyp, origin>>

\* line 378
SingleDpReturn ==
    /\ pc = "return"
    /\ origin' = <<Absolute(dxdy[1], DPshape[1]), Absolute(dxdy[2], DPshape[2])>>
    /\ pc' = "done"
    /\ UNCHANGED <<R_Nx, R_Ny, k, goVars, bbVars, foVars, psVars, fitVars, fbVars,
                   bdVars, DPshape, xpyp, dxdy>>

SingleDpBeamstopNext == SingleDpCorrelate \/ SingleDpWrap \/ SingleDpReturn

SpecSingleDpBeamstop == SingleDpBeamstopInit /\ [][SingleDpBeamstopNext]_vars

RatLt(a, b) == ~RatLeq(b, a)

WrappedInRange(d, p, n) ==
    /\ RatLeq(Rat(-n, 2), d) /\ RatLt(d, Rat(n, 2))
    /\ d[2] = 1 /\ (d[1] - p) % n = 0

OriginInRange(o, d, n) ==
    /\ o = RatDivInt(RatAdd(RatInt(n), d), 2)
    /\ RatLeq(Rat(n, 4), o) /\ RatLt(o, Rat(3 * n, 4))

\* C13: for every frame size N per axis, even or odd, and every arg-max index
\* p in 0..N-1, the wrapped offset d satisfies -N/2 <= d < N/2 and d is
\* congruent to p modulo N, and the returned coordinate is (N + d)/2, which
\* lies in [N/4, 3N/4).
WrappedOffsetAndOriginInRange ==
    /\ pc \in {"return", "done"} =>
           \A a \in 1 .. 2 : WrappedInRange(dxdy[a], xpyp[a], DPshape[a])
    /\ pc = "done" =>
           \A a \in 1 .. 2 : OriginInRange(origin[a], dxdy[a], DPshape[a])

\* an odd axis whose arg-max is in the upper half (wrapped to a negative
\* offset) and an even axis whose arg-max is exactly N/2
WrappedOddAndEvenAxes ==
    /\ pc = "done"
    /\ DPshape[1] % 2 = 1 /\ 2 * xpyp[1] > DPshape[1] /\ dxdy[1][1] < 0
    /\ DPshape[2] % 2 = 0 /\ 2 * xpyp[2] = DPshape[2]


(***************************************************************************)
(* fit_origin (origin.py:493-598).  The arrays are modelled by their shape *)
(* and dtype, fit_2D by the count of its calls.                            *)
(***************************************************************************)
Shapes == {<<2>>, <<1, 2>>, <<2, 1>>, <<2, 2>>}

DTypes == {"bool", "float"}

FitFunctions == {"plane", "parabola", "bezier_two", "gaussian"}

MaskNone == [given |-> FALSE, shape |-> <<>>, dtype |-> "bool"]

Masks == {MaskNone} \cup [given : {TRUE}, shape : Shapes, dtype : DTypes]

\* variant: the dtype of the mask is not looked at
MaskShapeOnly(m, shape) == ~m.given \/ m.shape = shape

\* line 539: mask is None or mask.shape == qx0_meas.shape and mask.dtype == bool
MaskAccepted(m, shape) == ~m.given \/ (m.shape = shape /\ m.dtype = "bool")

\* lines 536-540
AssertsHold(a) ==
    /\ Len(a.qx0_meas) = 2
    /\ Len(a.qy0_meas) = 2
    /\ a.qx0_meas = a.qy0_meas
    /\ MaskAccepted(a.mask, a.qx0_meas)
    /\ a.fitfunction \in {"plane", "parabola", "bezier_two"}

FitOriginInit ==
    /\ pc = "fit_origin"
    /\ fit_args \in [qx0_meas : Shapes, qy0_meas : Shapes, mask : Masks,
                     fitfunction : FitFunctions]
    /\ fitf = None
    /\ fit_calls = 0
    /\ R_Nx = None /\ R_Ny = None /\ k = None
    /\ GetOriginIdle /\ BraggIdle /\ OutlierIdle
    /\ ProbeSizeIdle /\ SingleDpBeamstopIdle /\ FromBraggpeaksIdle
    /\ BrightestDiskIdle

\* lines 536-540: the assertions on the arguments
FitAssert ==
    /\ pc = "fit_origin"
    /\ pc' = IF AssertsHold(fit_args) THEN "select" ELSE "AssertionError"
    /\ UNCHANGED <<R_Nx, R_Ny, k, goVars, bbVars, foVars, psVars, sbVars, fbVars,
                   bdVars, fit_args, fitf, fit_calls>>

\* lines 541-548: the fit function named by fitfunction
FitSelect ==
    /\ pc = "select"
    /\ IF fit_args.fitfunction \in {"plane", "parabola", "bezier_two"}
       THEN fitf' = fit_args.fitfunction /\ pc' = "fit_x"
       ELSE fitf' = fitf /\ pc' = "Exception"
    /\ UNCHANGED <<R_Nx, R_Ny, k, goVars, bbVars, foVars, psVars, sbVars, fbVars,
                   bdVars, fit_args, fit_calls>>

\* lines 551-557 and 567-574: fit_2D on qx0_meas
FitX ==
    /\ pc = "fit_x"
    /\ fit_calls' = fit_calls + 1
    /\ pc' = "fit_y"
    /\ UNCHANGED <<R_Nx, R_Ny, k, goVars, bbVars, foVars, psVars, sbVars, fbVars,
                   bdVars, fit_args, fitf>>

\* lines 558-564 and 575-582: fit_2D on qy0_meas
FitY ==
    /\ pc = "fit_y"
    /\ fit_calls' = fit_calls + 1
    /\ pc' = "residuals"
    /\ UNCHANGED <<R_Nx, R_Ny, k, goVars, bbVars, foVars, psVars, sbVars, fbVars,
                   bdVars, fit_args, fitf>>

\* lines 586-598: the residuals and the return
FitReturn ==
    /\ pc = "residuals"
    /\ pc' = "done"
    /\ UNCHANGED <<R_Nx, R_Ny, k, goVars, bbVars, foVars, psVars, sbVars, fbVars,
                   bdVars, fit_args, fitf, fit_calls>>

FitOriginNext == FitAssert \/ FitSelect \/ FitX \/ FitY \/ FitReturn

SpecFitOrigin == FitOriginInit /\ [][FitOriginNext]_vars

InvalidFitArguments ==
    \/ fit_args.fitfunction \notin {"plane", "parabola", "bezier_two"}
    \/ fit_args.mask.given /\ fit_args.mask.dtype # "bool"
    \/ fit_args.mask.given /\ fit_args.mask.shape # fit_args.qx0_meas
    \/ fit_args.qx0_meas # fit_args.qy0_meas

\* C12: an unsupported fitfunction, a mask that is not boolean or whose shape
\* differs from the measured field, or qx0_meas and qy0_meas of different
\* shapes each end in an error, with no call of the fitting routine.
InvalidArgumentsRejectedBeforeFit ==
    InvalidFitArguments =>
        /\ fit_calls = 0
        /\ pc \in {"fit_origin", "AssertionError", "Exception"}

\* a call rejected only for the dtype of its mask
NonBooleanMaskRejected ==
    /\ pc = "AssertionError"
    /\ fit_args.qx0_meas = <<2, 2>> /\ fit_args.qy0_meas = <<2, 2>>
    /\ fit_args.fitfunction = "plane"
    /\ fit_args.mask = [given |-> TRUE, shape |-> <<2, 2>>, dtype |-> "float"]


(***************************************************************************)
(* get_origin_from_braggpeaks (origin.py:173-255).  Peaks have integer     *)
(* coordinates and unit intensity, so that the Bragg vector map counts the *)
(* peaks per pixel and its CoM is the mean of the peak coordinates.  The   *)
(* arg-max of the gaussian-filtered map is any pixel.                      *)
(***************************************************************************)
Q_Nx == 3
Q_Ny == 2

BvmPix == (0 .. Q_Nx - 1) \X (0 .. Q_Ny - 1)

\* (qx - x0) ** 2 + (qy - y0) ** 2
R2(q, c) ==
    LET dx == RatSub(RatInt(q[1]), c.x)
        dy == RatSub(RatInt(q[2]), c.y)
    IN  RatAdd(RatMul(dx, dx), RatMul(dy, dy))

\* variant: the last of the minima
LastNearest(pl, c) ==
    IF c.nan THEN 1
    ELSE CHOOSE i \in DOMAIN pl :
            /\ \A j \in DOMAIN pl : RatLeq(R2(pl[i], c), R2(pl[j], c))
            /\ \A j \in DOMAIN pl : R2(pl[j], c) = R2(pl[i], c) => j <= i

\* index = np.argmin(r2): the first of the minima (of an all-NaN r2, the first)
Nearest(pl, c) ==
    IF c.nan THEN 1
    ELSE CHOOSE i \in DOMAIN pl :
            /\ \A j \in DOMAIN pl : RatLeq(R2(pl[i], c), R2(pl[j], c))
            /\ \A j \in DOMAIN pl : R2(pl[j], c) = R2(pl[i], c) => i <= j

\* get_CoM of the Bragg vector map made of the peaks qs[p], p in S
PeaksCoM(S, qs) ==
    IF S = {} THEN NaNCenter
    ELSE Center(Rat(SumOver(S, [p \in S |-> qs[p][1]]), Cardinality(S)),
                Rat(SumOver(S, [p \in S |-> qs[p][2]]), Cardinality(S)))

\* every peak of every scan position, as <<position, index>>
AllPeaks(bp) == UNION {{<<p, i>> : i \in 1 .. Len(bp[p])} : p \in DOMAIN bp}

\* lines 218-234: the CoM of all peaks, then the CoM of the peak nearest to it
\* at each scan position
CoMGuess(bp) ==
    LET all   == AllPeaks(bp)
        first == PeaksCoM(all, [pi \in all |-> bp[pi[1]][pi[2]]])
        some  == {p \in DOMAIN bp : Len(bp[p]) > 0}
    IN  PeaksCoM(some, [p \in some |-> bp[p][Nearest(bp[p], first)]])

FromBraggpeaksInit ==
    /\ pc = "get_origin_from_braggpeaks"
    /\ R_Nx = 1
    /\ R_Ny \in ScanWidths
    /\ \E flat \in SeqsUpTo(QPoints, MaxPeaks) :
         \E at \in [1 .. Len(flat) -> 0 .. R_Ny - 1] :
            /\ Monotone(at)
            /\ braggpeaks = PointListArray(R_Ny, flat, at)
    /\ findcenter \in {"CoM", "max"}
    /\ x0y0 = None /\ braggvectormap = None /\ qx0 = None /\ qy0 = None
    /\ k = None
    /\ datacube = None /\ r = None /\ mask = None
    /\ center_guess = None /\ radii = None /\ max_dist = None /\ max_iter = None
    /\ braggpeaks_masked = None /\ center_curr = None /\ ii = None
    /\ centers = None /\ found_center = None /\ matches = None /\ origins = None
    /\ OutlierIdle
    /\ ProbeSizeIdle /\ FitOriginIdle /\ SingleDpBeamstopIdle /\ BrightestDiskIdle

\* lines 236-238: the arrays of the final pass
FinalPassStart ==
    /\ braggvectormap' = [q \in BvmPix |-> 0]
    /\ qx0' = [p \in Grid(R_Nx, R_Ny) |-> 0]
    /\ qy0' = [p \in Grid(R_Nx, R_Ny) |-> 0]
    /\ k' = 0
    /\ pc' = "final"
    /\ UNCHANGED <<R_Nx, R_Ny, datacube, r, mask, bbVars, foVars, psVars, fitVars,
                   sbVars, bdVars, findcenter>>

\* lines 213-216: findcenter == "max"
FromBraggGuessMax ==
    /\ pc = "get_origin_from_braggpeaks"
    /\ findcenter = "max"
    /\ \E q \in BvmPix : x0y0' = Center(RatInt(q[1]), RatInt(q[2]))
    /\ FinalPassStart

\* lines 217-234: findcenter == "CoM"
FromBraggGuessCoM ==
    /\ pc = "get_origin_from_braggpeaks"
    /\ findcenter = "CoM"
    /\ x0y0' = CoMGuess(braggpeaks)
    /\ FinalPassStart

\* lines 239-253: one scan position of the final pass
FromBraggPosition ==
    /\ pc = "final"
    /\ k < R_Nx * R_Ny
    /\ LET p         == PosAt(k, R_Ny)
           pointlist == braggpeaks[p]
       IN  IF Len(pointlist) > 0
           THEN LET index == Nearest(pointlist, x0y0)
                    q     == pointlist[index]
                IN  /\ braggvectormap' = [braggvectormap EXCEPT ![q] = @ + 1]
                    /\ qx0' = [qx0 EXCEPT ![p] = q[1]]
                    /\ qy0' = [qy0 EXCEPT ![p] = q[2]]
           ELSE UNCHANGED <<braggvectormap, qx0, qy0>>
    /\ k' = k + 1
    /\ UNCHANGED <<pc, R_Nx, R_Ny, datacube, r, mask, bbVars, foVars, psVars, fitVars,
                   sbVars, bdVars, findcenter, x0y0>>

\* line 255
FromBraggReturn ==
    /\ pc = "final"
    /\ k = R_Nx * R_Ny
    /\ pc' = "done"
    /\ UNCHANGED <<R_Nx, R_Ny, k, goVars, bbVars, foVars, calVars>>

FromBraggpeaksNext ==
    FromBraggGuessMax \/ FromBraggGuessCoM \/ FromBraggPosition \/ FromBraggReturn

SpecFromBraggpeaks == FromBraggpeaksInit /\ [][FromBraggpeaksNext]_vars

\* the peaks of pl at minimal distance from the guess c
MinimalPeaks(pl, c) ==
    {i \in DOMAIN pl : \A j \in DOMAIN pl : RatLeq(R2(pl[i], c), R2(pl[j], c))}

\* the positions the final pass has been through
PassedPositions == {p \in Grid(R_Nx, R_Ny) : p[1] * R_Ny + p[2] < k}

NearestPeakRecorded ==
    pc \in {"final", "done"} =>
        \A p \in PassedPositions :
            Len(braggpeaks[p]) > 0 =>
                LET mins  == MinimalPeaks(braggpeaks[p], x0y0)
                    first == CHOOSE i \in mins : \A j \in mins : i <= j
                IN  /\ ~x0y0.nan
                    /\ mins # {}
                    /\ <<qx0[p], qy0[p]>> = braggpeaks[p][first]

GuessKeptInFinalPass == pc = "final" => x0y0' = x0y0

NoArray == [dtype |-> None, val |-> <<>>]

MaskArrays ==
    {[dtype |-> d, val |-> [q \in QPix |-> [v |-> m[q], e |-> 0]]] :
        d \in DTypes, m \in [QPix -> {0, 1}]}

\* qxa**2 + qya**2
Qr2(q, q0) == Sq(q[1] - q0[1]) + Sq(q[2] - q0[2])

\* x * np.exp((qxa**2 + qya**2)/(-2*probe_mask_size**2))
TimesGaussian(x, d2) == IF x.v = 0 THEN x ELSE [v |-> x.v, e |-> x.e + d2]

BrightestDiskInit ==
    /\ pc = "get_origin_brightest_disk"
    /\ R_Nx \in 1 .. GO_MaxRNx
    /\ R_Ny \in 1 .. GO_MaxRNy
    /\ \E a, b \in 0 .. MaxQN - 1 : datacube = Datacube(R_Nx, R_Ny, a, b)
    /\ qxyInit \in QPix
    /\ mask \in {NoArray} \cup MaskArrays
    /\ caller_mask = mask
    /\ r = None /\ qx0 = None /\ qy0 = None /\ k = None
    /\ BraggIdle /\ OutlierIdle
    /\ ProbeSizeIdle /\ FitOriginIdle /\ SingleDpBeamstopIdle /\ FromBraggpeaksIdle

\* lines 313-324: the mask times the gaussian about qxyInit, the output arrays
BrightestDiskMask ==
    /\ pc = "get_origin_brightest_disk"
    /\ IF mask = NoArray
       THEN /\ mask' = [dtype |-> "float",
                        val   |-> [q \in QPix |-> [v |-> 1, e |-> Qr2(q, qxyInit)]]]
            /\ pc' = "origins"
       ELSE IF mask.dtype = "float"
       THEN /\ mask' = [mask EXCEPT !.val =
                           [q \in QPix |-> TimesGaussian(mask.val[q], Qr2(q, qxyInit))]]
            /\ pc' = "origins"
       ELSE /\ mask' = mask
            /\ pc' = "TypeError"
    /\ qx0' = [p \in Grid(R_Nx, R_Ny) |-> 0]
    /\ qy0' = [p \in Grid(R_Nx, R_Ny) |-> 0]
    /\ k' = 0
    /\ UNCHANGED <<R_Nx, R_Ny, datacube, r, bbVars, foVars, psVars, fitVars, sbVars,
                   fbVars, qxyInit, caller_mask>>

\* lines 326-331: the brightest pixel of the masked frame
BrightestDiskPosition ==
    /\ pc = "origins"
    /\ k < R_Nx * R_Ny
    /\ LET p     == PosAt(k, R_Ny)
           ind2D == ArgMax([q \in QPix |-> datacube[p][q] * mask.val[q].v])
       IN  /\ qx0' = [qx0 EXCEPT ![p] = ind2D[1]]
           /\ qy0' = [qy0 EXCEPT ![p] = ind2D[2]]
    /\ k' = k + 1
    /\ UNCHANGED <<pc, R_Nx, R_Ny, datacube, r, mask, bbVars, foVars, psVars, fitVars,
                   sbVars, fbVars, bdVars>>

\* line 349
BrightestDiskReturn ==
    /\ pc = "origins"
    /\ k = R_Nx * R_Ny
    /\ pc' = "done"
    /\ UNCHANGED <<R_Nx, R_Ny, k, goVars, bbVars, foVars, calVars>>

BrightestDiskNext == BrightestDiskMask \/ BrightestDiskPosition \/ BrightestDiskReturn

SpecBrightestDisk == BrightestDiskInit /\ [][BrightestDiskNext]_vars

\* C15: the caller-supplied mask array is left unchanged: after the call it
\* has the same values as before it.
CallerMaskUnchanged ==
    (pc = "done" /\ caller_mask # NoArray) => mask = caller_mask


(***************************************************************************)
(* get_probe_size (origin.py:17-67).  A radius is kept as the integer      *)
(* floor(SqrtScale * sqrt(area)), that is in units of                      *)
(* 1 / (SqrtScale * sqrt(pi)); the gradient is kept doubled.               *)
(***************************************************************************)
MaxThreshN == 3

SqrtScale == 100

PixelValues == {0, 1, 2}

ThreshChoices == {Rat(1, 10), Rat(1, 2), Rat(9, 10)}

\* np.linspace(thresh_lower, thresh_upper, N)
Linspace(lo, hi, n) ==
    [i \in 1 .. n |-> RatAdd(lo, RatDivInt(RatMul(RatSub(hi, lo), RatInt(i - 1)), n - 1))]

\* np.max(DP)
MaxOf(dp) == CHOOSE v \in {dp[q] : q \in QPix} : \A q \in QPix : dp[q] <= v

\* DP > DPmax * thresh
Above(dp, thresh) == [q \in QPix |-> dp[q] * thresh[2] > MaxOf(dp) * thresh[1]]

\* np.sqrt(np.sum(mask) / np.pi)
Radius(m) ==
    LET area == Cardinality({q \in QPix : m[q]})
    IN  CHOOSE s \in 0 .. SqrtScale * MaxQN :
            s * s <= area * SqrtScale * SqrtScale
            /\ area * SqrtScale * SqrtScale < (s + 1) * (s + 1)

\* 2 * np.gradient(rv): one-sided differences at the ends, central ones inside
Gradient2(rv) ==
    LET n == Len(rv)
    IN  [i \in 1 .. n |->
            IF i = 1 THEN 2 * (rv[2] - rv[1])
            ELSE IF i = n THEN 2 * (rv[n] - rv[n - 1])
            ELSE rv[i + 1] - rv[i - 1]]

\* the j-th smallest entry of g
Ranked(g, j) ==
    CHOOSE v \in {g[i] : i \in DOMAIN g} :
        /\ Cardinality({i \in DOMAIN g : g[i] < v}) < j
        /\ Cardinality({i \in DOMAIN g : g[i] <= v}) >= j

\* 2 * np.median(g)
Median2(g) ==
    LET n == Len(g)
    IN  IF n % 2 = 1 THEN 2 * Ranked(g, (n + 1) \div 2)
        ELSE Ranked(g, n \div 2) + Ranked(g, n \div 2 + 1)

\* line 59: (dr_dtheta <= 0) * (dr_dtheta >= 2 * np.median(dr_dtheta))
Plateau(g) == {i \in DOMAIN g : g[i] <= 0 /\ g[i] >= Median2(g)}

\* np.mean(vals[mask]) of rationals: NaN for an empty selection
MeanOf(sel, vals) ==
    IF sel = {} THEN NaN ELSE RatDivInt(RatSumOver(sel, vals), Cardinality(sel))

ProbeSizeInit ==
    /\ pc = "get_probe_size"
    /\ DP \in [QPix -> PixelValues]
    /\ \E lo, hi \in ThreshChoices, n \in 2 .. MaxThreshN :
          /\ thresh_vals = Linspace(lo, hi, n)
          /\ r_vals = [i \in 1 .. n |-> 0]
    /\ dr_dtheta = None /\ probe = None
    /\ R_Nx = None /\ R_Ny = None /\ k = None
    /\ GetOriginIdle /\ BraggIdle /\ OutlierIdle
    /\ FitOriginIdle /\ SingleDpBeamstopIdle /\ FromBraggpeaksIdle
    /\ BrightestDiskIdle

\* lines 51-55: the radius of the area above each threshold
ProbeRadii ==
    /\ pc = "get_probe_size"
    /\ r_vals' = [i \in DOMAIN thresh_vals |-> Radius(Above(DP, thresh_vals[i]))]
    /\ pc' = "derivative"
    /\ UNCHANGED <<R_Nx, R_Ny, k, goVars, bbVars, foVars, fitVars, sbVars, fbVars,
                   bdVars, DP, thresh_vals, dr_dtheta, probe>>

\* lines 58-60: the derivative, the selection and the mean radius
ProbeSelect ==
    /\ pc = "derivative"
    /\ dr_dtheta' = Gradient2(r_vals)
    /\ probe' = [r  |-> MeanOf(Plateau(dr_dtheta'), [i \in DOMAIN r_vals |-> RatInt(r_vals[i])]),
                 x0 |-> None, y0 |-> None]
    /\ pc' = "origin"
    /\ UNCHANGED <<R_Nx, R_Ny, k, goVars, bbVars, foVars, fitVars, sbVars, fbVars,
                   bdVars, DP, thresh_vals, r_vals>>

\* lines 63-67: the CoM of the pattern above the mean selected threshold
ProbeOrigin ==
    /\ pc = "origin"
    /\ LET thresh == MeanOf(Plateau(dr_dtheta), thresh_vals)
           m      == IF thresh = NaN THEN [q \in QPix |-> FALSE] ELSE Above(DP, thresh)
           x0y    == get_CoM([q \in QPix |-> IF m[q] THEN DP[q] ELSE 0])
       IN  probe' = [probe EXCEPT !.x0 = x0y[1], !.y0 = x0y[2]]
    /\ pc' = "done"
    /\ UNCHANGED <<R_Nx, R_Ny, k, goVars, bbVars, foVars, fitVars, sbVars, fbVars,
                   bdVars, DP, thresh_vals, r_vals, dr_dtheta>>

ProbeSizeNext == ProbeRadii \/ ProbeSelect \/ ProbeOrigin

SpecProbeSize == ProbeSizeInit /\ [][ProbeSizeNext]_vars

\* C11: when no threshold satisfies the plateau criterion, the call reports
\* an error instead of going on to a radius and a center computed from an
\* empty selection: it never reaches the origin step or returns.
EmptySelectionIsAnError ==
    pc \in {"origin", "done"} => Plateau(dr_dtheta) # {}

====
